---- MODULE Spec2Model ----
(***************************************************************************)
(* The JSON-RPC sandbox server of soroban-cli (src/src/serve.rs): the      *)
(* request handler, the transaction codec and hasher, the execution        *)
(* orchestrator, the in-memory transaction status map behind its mutex,    *)
(* and the ledger file the orchestrator reads and commits.                 *)
(*                                                                         *)
(* Requests are handled concurrently, one task per request.  A step of the *)
(* model is one access of a task to shared state (the mutex, the status    *)
(* map, the ledger file) together with the task-local computation that     *)
(* follows it up to the next such access.  Tasks have no identity beyond    *)
(* their local state: the tasks in flight are a bag of such states.         *)
(***************************************************************************)
EXTENDS Integers, Sequences, FiniteSets, Bags, TLC

\* ------------------------------------------------------------------ bounds

\* Number of requests the server handles concurrently (request tasks).
MaxInFlight == 2
\* Number of requests received over one run of the server.
MaxRequests == 3

\* ---------------------------------------------------------- ledger entries

\* Ledger keys: the contract's code entry and two contract-data entries.
CodeKey == "code"
DataKeys == {"k1", "k2"}
Keys == {CodeKey} \cup DataKeys
\* Iteration order of the ordered maps keyed by ledger key.
KeyOrder == <<"code", "k1", "k2">>
\* Values of ledger entries; NoEntry stands for "no entry under this key"
\* (in a snapshot) and for the deletion marker None (in storage.map).
Vals == {"v1", "v2"}
NoEntry == "none"
Wasm == "wasm"

\* A snapshot: every key to its entry or NoEntry.
Snapshots ==
  {s \in [Keys -> Vals \cup {Wasm, NoEntry}] :
      /\ s[CodeKey] \in {Wasm, NoEntry}
      /\ \A k \in DataKeys : s[k] \in Vals \cup {NoEntry}}

EmptySnapshot == [k \in Keys |-> NoEntry]
\* A ledger with the contract deployed and one contract-data entry.
DeployedSnapshot == [EmptySnapshot EXCEPT ![CodeKey] = Wasm, !["k2"] = "v2"]

\* ------------------------------------------------------------- Result<T,E>

Ok(v) == [ok |-> TRUE, val |-> v]
Err(e) == [ok |-> FALSE, err |-> e]

\* -------------------------------------------------------------- XDR values

\* Base64 XDR rendering of a value (WriteXdr::to_xdr_base64): a string.
ToXdrBase64(v) == [xdr_base64 |-> v]
\* The base64 XDR string of an envelope, as a request carries it.
EnvelopeXdr(e) == [envelope_xdr |-> e]

\* Content of a byte string that is not valid UTF-8.
NotUtf8 == "<not utf-8>"

Bytes(n, s) == [type |-> "Bytes", len |-> n, str |-> s]
Symbol(n, s) == [type |-> "Symbol", len |-> n, str |-> s]

\* Length of a contract id ([u8; 32]) and the capacity of an ScSymbol.
ContractIdLen == 32
SymbolMaxLen == 10

ContractId == Bytes(ContractIdLen, "c0")

InvokeOp(params) ==
  [body |-> "InvokeHostFunction", function |-> "Call", parameters |-> params]

\* The three variants of TransactionEnvelope.  Of a transaction the model
\* keeps its operations; the source account, fee, sequence number, time
\* bounds and memo are carried along unread by this code.
Tx(ops) == [variant |-> "Tx", tx |-> [operations |-> ops]]
TxV0(ops) == [variant |-> "TxV0", tx |-> [operations |-> ops]]
TxFeeBump(ops) == [variant |-> "TxFeeBump", tx |-> [inner_tx |-> Tx(ops)]]
\* What a string that is not the base64 XDR of an envelope stands for.
Undecodable == [variant |-> "Undecodable", tx |-> [operations |-> <<>>]]

\* The envelopes requests carry.
EPut ==
  Tx(<<InvokeOp(<<ContractId, Symbol(3, "put"), Symbol(2, "k1"), Symbol(2, "v1")>>)>>)
ECopy ==
  TxV0(<<InvokeOp(<<ContractId, Bytes(4, "copy"), Symbol(2, "k1"), Symbol(2, "k2")>>)>>)
EDel ==
  TxFeeBump(<<InvokeOp(<<ContractId, Symbol(3, "del"), Symbol(2, "k1")>>)>>)
ETwoOps ==
  Tx(<<InvokeOp(<<ContractId, Symbol(3, "put")>>), InvokeOp(<<ContractId, Symbol(3, "put")>>)>>)
EShortId ==
  Tx(<<InvokeOp(<<Bytes(31, "c0"), Symbol(3, "put"), Symbol(2, "k1"), Symbol(2, "v1")>>)>>)

ValidEnvelopes == {EPut, ECopy, EDel}
Envelopes == ValidEnvelopes \cup {ETwoOps, EShortId}

\* TransactionEnvelope::from_xdr_base64
FromXdrBase64(s) ==
  IF s.envelope_xdr.variant \in {"TxV0", "Tx", "TxFeeBump"}
  THEN Ok(s.envelope_xdr)
  ELSE Err("Xdr")

SANDBOX_NETWORK_PASSPHRASE == "Local Sandbox Stellar Network ; September 2022"
OtherPassphrase == "Test SDF Future Network ; October 2022"

\* ---------------------------------------------------------------- hashing

\* SHA-256, taken as collision free: the digest names what was hashed.
hash_bytes(b) == [sha256 |-> b]

\* Variant: the network id does not come from the passphrase.
hash_transaction_in_envelopeFixedNetwork(envelope, passphrase) ==
  LET tagged_transaction ==
        CASE envelope.variant = "TxV0" ->
               [tag |-> "Tx", tx |-> [operations |-> envelope.tx.operations]]
          [] envelope.variant = "Tx" ->
               [tag |-> "Tx", tx |-> envelope.tx]
          [] envelope.variant = "TxFeeBump" ->
               [tag |-> "TxFeeBump", tx |-> envelope.tx]
      network_id == hash_bytes([bytes |-> ""])
      payload == [network_id |-> network_id, tagged_transaction |-> tagged_transaction]
  IN Ok(hash_bytes(payload))

hash_transaction_in_envelope(envelope, passphrase) ==
  LET tagged_transaction ==
        CASE envelope.variant = "TxV0" ->
               [tag |-> "Tx", tx |-> [operations |-> envelope.tx.operations]]
          [] envelope.variant = "Tx" ->
               [tag |-> "Tx", tx |-> envelope.tx]
          [] envelope.variant = "TxFeeBump" ->
               [tag |-> "TxFeeBump", tx |-> envelope.tx]
      network_id == hash_bytes([bytes |-> passphrase])
      payload == [network_id |-> network_id, tagged_transaction |-> tagged_transaction]
  IN Ok(hash_bytes(payload))

\* hex::encode
HexEncode(hash) == [hex |-> hash]

\* ------------------------------------------------------- transaction codec

\* The operations of the transaction in an envelope; a fee bump is
\* unwrapped one level.
Operations(transaction) ==
  CASE transaction.variant = "TxV0" -> transaction.tx.operations
    [] transaction.variant = "Tx" -> transaction.tx.operations
    [] transaction.variant = "TxFeeBump" -> transaction.tx.inner_tx.tx.operations

\* Variant: a contract id of any length is taken.
ContractIdBytesAnyLength(contract_xdr) ==
  IF contract_xdr.type = "Bytes" THEN Ok(contract_xdr.str) ELSE Err("Xdr")

\* Parameter 0 as a [u8; 32]: a bytes object of exactly 32 bytes.
ContractIdBytes(contract_xdr) ==
  IF contract_xdr.type = "Bytes" /\ contract_xdr.len = ContractIdLen
  THEN Ok(contract_xdr.str)
  ELSE Err("Xdr")

\* Variant: only the binary encoding of the method name is handled.
MethodStringBytesOnly(method_xdr) ==
  IF method_xdr.type = "Bytes" /\ method_xdr.str # NotUtf8
  THEN Ok([len |-> method_xdr.len, str |-> method_xdr.str])
  ELSE Err("Xdr")

\* Parameter 1 as a String: a bytes object is tried first, then a symbol;
\* either must be UTF-8.
MethodString(method_xdr) ==
  IF method_xdr.type = "Bytes" THEN
    IF method_xdr.str = NotUtf8 THEN Err("Xdr")
    ELSE Ok([len |-> method_xdr.len, str |-> method_xdr.str])
  ELSE IF method_xdr.type = "Symbol" THEN
    IF method_xdr.str = NotUtf8 THEN Err("Xdr")
    ELSE Ok([len |-> method_xdr.len, str |-> method_xdr.str])
  ELSE Err("Xdr")

\* The sequence s in reverse order.
Reversed(s) == [i \in 1..Len(s) |-> s[Len(s) + 1 - i]]

\* Variant: the remaining parameters are appended in reverse order.
CompleteArgsReversing(contract_id, method, params) ==
  IF method.len > SymbolMaxLen THEN Err("Xdr")
  ELSE Ok(<<Bytes(ContractIdLen, contract_id), Symbol(method.len, method.str)>>
          \o Reversed(params))

\* complete_args: the contract id as bytes, the method as a symbol (which
\* holds at most SymbolMaxLen bytes), then the remaining parameters.
CompleteArgs(contract_id, method, params) ==
  IF method.len > SymbolMaxLen THEN Err("Xdr")
  ELSE Ok(<<Bytes(ContractIdLen, contract_id), Symbol(method.len, method.str)>>
          \o params)

parse_transaction(txn_xdr, passphrase) ==
  LET decoded == FromXdrBase64(txn_xdr) IN
  IF ~decoded.ok THEN Err("Xdr") ELSE
  LET transaction == decoded.val
      hash == hash_transaction_in_envelope(transaction, passphrase)
      ops == Operations(transaction)
  IN
  IF ~hash.ok THEN hash
  ELSE IF Len(ops) # 1 THEN Err("Xdr")
  ELSE LET body == ops[1] IN
  IF body.body # "InvokeHostFunction" THEN Err("Xdr")
  ELSE IF body.function # "Call" THEN Err("Xdr")
  ELSE IF Len(body.parameters) < 2 THEN Err("Xdr")
  ELSE LET contract_xdr == body.parameters[1]
           method_xdr == body.parameters[2]
           params == SubSeq(body.parameters, 3, Len(body.parameters))
           contract_id == ContractIdBytes(contract_xdr)
           method == MethodString(method_xdr)
  IN
  IF ~contract_id.ok THEN contract_id
  ELSE IF ~method.ok THEN method
  ELSE LET complete_args == CompleteArgs(contract_id.val, method.val, params) IN
  IF ~complete_args.ok THEN complete_args
  ELSE Ok([hash |-> hash.val, args |-> complete_args.val])

\* ------------------------------------------- execution engine and storage

\* Storage::with_recording_footprint over a snapshot: what the storage holds
\* after the engine ran.  footprint: each key touched to its access type;
\* map: each key touched to its entry, NoEntry for a deleted or missing key.
EmptyStorage == [footprint |-> <<>>, map |-> <<>>]

\* storage.get: a key not yet recorded is loaded from the snapshot, ReadOnly.
StorageGet(st, snap, k) ==
  IF k \in DOMAIN st.footprint THEN st
  ELSE [footprint |-> (k :> "ReadOnly") @@ st.footprint,
        map |-> (k :> snap[k]) @@ st.map]

\* storage.put / storage.del: the key becomes ReadWrite with its new entry.
StoragePut(st, k, v) ==
  [footprint |-> (k :> "ReadWrite") @@ st.footprint,
   map |-> (k :> v) @@ st.map]

IsKeyParam(p) == p.type = "Symbol" /\ p.str \in DataKeys
IsValParam(p) == p.type = "Symbol" /\ p.str \in Vals

\* Host::invoke_function(HostFunction::Call, args) on a contract with the
\* functions put(k, v), del(k), get(k) and copy(from, to), followed by
\* try_finish: the result value and the storage, or a host error (no code
\* under the contract id, unknown function, wrong arguments, missing key).
InvokeFunction(args, snap) ==
  LET st0 == StorageGet(EmptyStorage, snap, CodeKey)
      fn == args[2].str
      p == SubSeq(args, 3, Len(args))
      done(res, st) == Ok([res |-> res, storage |-> st])
  IN
  IF snap[CodeKey] = NoEntry THEN Err("Host")
  ELSE IF fn = "put" /\ Len(p) = 2 /\ IsKeyParam(p[1]) /\ IsValParam(p[2])
    THEN done("void", StoragePut(st0, p[1].str, p[2].str))
  ELSE IF fn = "del" /\ Len(p) = 1 /\ IsKeyParam(p[1])
    THEN done("void", StoragePut(st0, p[1].str, NoEntry))
  ELSE IF fn = "get" /\ Len(p) = 1 /\ IsKeyParam(p[1]) /\ snap[p[1].str] # NoEntry
    THEN done(snap[p[1].str], StorageGet(st0, snap, p[1].str))
  ELSE IF fn = "copy" /\ Len(p) = 2 /\ IsKeyParam(p[1]) /\ IsKeyParam(p[2])
          /\ snap[p[1].str] # NoEntry
    THEN done(snap[p[1].str],
              StoragePut(StorageGet(st0, snap, p[1].str), p[2].str, snap[p[1].str]))
  ELSE Err("Host")

\* ---------------------------------------------------------- snapshot store

\* snapshot::read: the persisted map; a missing file reads as the empty map.
SnapshotRead(file) == Ok(file)

\* snapshot::commit: the base with every entry of the delta laid over it.
SnapshotCommit(base, delta) ==
  [k \in Keys |-> IF k \in DOMAIN delta THEN delta[k] ELSE base[k]]

\* ------------------------------------------------------------- JSON-RPC

\* JSON-RPC error codes.
InvalidRequest == -32600
ParseError == -32700
MethodNotFound == -32601
InternalError == -32603
NotFound == 404

NullId == "null"
NoId == "none"

\* Variant: every list of strings is StringArg.
RequestsAlwaysStringArg(list) == [shape |-> "StringArg", items |-> list]

\* serde's untagged Requests: a list of exactly two strings is taken as the
\* first variant, GetContractData((String, String)); any other list of
\* strings is StringArg.
Requests(list) ==
  IF Len(list) = 2
  THEN [shape |-> "GetContractData", items |-> list]
  ELSE [shape |-> "StringArg", items |-> list]
NoParams == [shape |-> "None", items |-> <<>>]

Request(version, id, method, params) ==
  [jsonrpc |-> version, id |-> id, method |-> method, params |-> params]

NoRequest == Request("", NoId, "", NoParams)

\* The id of a valid envelope's transaction, as sendTransaction reports it.
TxId(e) == HexEncode(hash_transaction_in_envelope(e, SANDBOX_NETWORK_PASSPHRASE).val)
\* A well-formed id no transaction of this network has.
ForeignId == HexEncode(hash_transaction_in_envelope(EPut, OtherPassphrase).val)
TxIds == {TxId(e) : e \in ValidEnvelopes}

\* The requests clients send.
SampleRequests ==
  {Request("1.0", "7", "sendTransaction", Requests(<<EnvelopeXdr(EPut)>>)),
   Request("2.0", "7", "getLedger", Requests(<<EnvelopeXdr(EPut)>>)),
   Request("2.0", "7", "simulateTransaction", Requests(<<>>)),
   Request("2.0", "7", "getContractData",
           Requests(<<[contract_hex |-> "c0"], [key_xdr |-> "k1"]>>)),
   Request("2.0", "7", "getTransactionStatus", Requests(<<TxId(EPut)>>)),
   Request("2.0", "7", "simulateTransaction", Requests(<<EnvelopeXdr(Undecodable)>>)),
   Request("2.0", "7", "simulateTransaction", Requests(<<EnvelopeXdr(EPut)>>)),
   Request("2.0", NoId, "sendTransaction", Requests(<<EnvelopeXdr(ETwoOps)>>)),
   Request("2.0", "7", "sendTransaction",
           Requests(<<EnvelopeXdr(EPut), EnvelopeXdr(EPut)>>)),
   Request("2.0", "7", "getContractData", Requests(<<[contract_hex |-> "c0"]>>)),
   Request("2.0", "7", "getTransactionStatus", NoParams)}
  \cup {Request("2.0", "7", "sendTransaction", Requests(<<EnvelopeXdr(e)>>)) :
          e \in ValidEnvelopes}

\* Variant: an XDR error is reported as a serialization failure.
replyXdrAsParseError(id, result) ==
  IF result.ok
  THEN [jsonrpc |-> "2.0", id |-> IF id = NoId THEN NullId ELSE id,
        result |-> result.val]
  ELSE [jsonrpc |-> "2.0", id |-> IF id = NoId THEN NullId ELSE id,
        error |-> [code |-> CASE result.err \in {"Serde", "Xdr"} -> ParseError
                              [] result.err = "UnknownMethod" -> MethodNotFound
                              [] OTHER -> InternalError,
                   message |-> result.err]]

\* reply(): the JSON-RPC response of a handler result.
reply(id, result) ==
  IF result.ok
  THEN [jsonrpc |-> "2.0", id |-> IF id = NoId THEN NullId ELSE id,
        result |-> result.val]
  ELSE [jsonrpc |-> "2.0", id |-> IF id = NoId THEN NullId ELSE id,
        error |-> [code |-> CASE result.err = "Serde" -> ParseError
                              [] result.err = "UnknownMethod" -> MethodNotFound
                              [] OTHER -> InternalError,
                   message |-> result.err]]

\* The response to a request whose jsonrpc is not "2.0".
InvalidJsonRpcResponse(id) ==
  [jsonrpc |-> "2.0", id |-> IF id = NoId THEN NullId ELSE id,
   error |-> [code |-> InvalidRequest, message |-> "Invalid jsonrpc value in request"]]

NoResult == Err("")

\* -------------------------------------------------- execution orchestrator

\* Variant: the access type of a key is not looked at.
FootprintKeysAnyAccess(footprint, access) ==
  LET ks == SelectSeq(KeyOrder, LAMBDA k : k \in DOMAIN footprint)
  IN [i \in 1..Len(ks) |-> ToXdrBase64(ks[i])]

\* The keys of a footprint with one access type, each as base64 XDR, in the
\* footprint's iteration order (execute_transaction's read_only, read_write).
FootprintKeys(footprint, access) ==
  LET ks == SelectSeq(KeyOrder,
                      LAMBDA k : k \in DOMAIN footprint /\ footprint[k] = access)
  IN [i \in 1..Len(ks) |-> ToXdrBase64(ks[i])]

\* The value execute_transaction returns on success.
Receipt(res, storage) ==
  [cost |-> [cpuInsns |-> "cpu", memBytes |-> "mem"],
   footprint |-> [readOnly |-> FootprintKeys(storage.footprint, "ReadOnly"),
                  readWrite |-> FootprintKeys(storage.footprint, "ReadWrite")],
   results |-> <<[xdr |-> ToXdrBase64(res)]>>,
   latestLedger |-> 1]

\* Variant: every execution commits.
CommitFlagAlways(method) == TRUE

\* The commit argument the handler passes to execute_transaction.
CommitFlag(method) == method = "sendTransaction"

\* Variant: only the entries of the keys written are handed over.
DeltaMapReadWrite(storage) ==
  [k \in {j \in DOMAIN storage.map : storage.footprint[j] = "ReadWrite"} |->
     storage.map[k]]

\* The delta handed to snapshot::commit: &storage.map, the storage's whole
\* map as the engine left it.
DeltaMap(storage) == storage.map

\* Variant: the delta is committed over an empty base instead of the
\* snapshot that was read.
CommittedSnapshotReplacing(ledger_entries, storage) ==
  SnapshotCommit(EmptySnapshot, DeltaMap(storage))

\* What execute_transaction has snapshot::commit persist.
CommittedSnapshot(ledger_entries, storage) ==
  SnapshotCommit(ledger_entries, DeltaMap(storage))

\* Variant: a successful execution is recorded as pending.
StatusEntryPending(id, result) ==
  IF result.ok
  THEN [id |-> id, status |-> "pending", results |-> <<result.val>>]
  ELSE [id |-> id, status |-> "error",
        error |-> [code |-> InternalError, message |-> "Internal server error"]]

\* The status tracker entry of an executed transaction.
StatusEntry(id, result) ==
  IF result.ok
  THEN [id |-> id, status |-> "success", results |-> <<result.val>>]
  ELSE [id |-> id, status |-> "error",
        error |-> [code |-> InternalError, message |-> "Internal server error"]]

\* Variant: the answer reports the transaction as finished.
PendingResponseFinal(id) == [id |-> id, status |-> "success"]

\* What sendTransaction answers.
PendingResponse(id) == [id |-> id, status |-> "pending"]

\* What getTransactionStatus answers for a hash the tracker does not hold.
TransactionNotFound ==
  [error |-> [code |-> NotFound, message |-> "Transaction not found"]]

\* ------------------------------------------------------------------- state

VARIABLES
  ledger_file,             \* the snapshot the ledger file holds
  transaction_status_map,  \* the HashMap behind the mutex: id -> status entry
  locked,                  \* whether the mutex is locked
  tasks,                   \* the request tasks in flight: a bag of task states
  returned,                \* ids sendTransaction has answered with
  received,                \* number of requests received
  envelope_xdr,            \* the envelope string given to parse_transaction
  network_passphrase,      \* the passphrase given to parse_transaction
  invocation,              \* what parse_transaction returned for them
  hashes,                  \* passphrase -> what hashing the envelope gave
  invoke                   \* the run of the invoke command

\* The state of the server; of a call of the transaction codec; of the
\* invoke command (which shares the ledger file with the server).
server_vars == <<transaction_status_map, locked, tasks, returned, received>>
codec_vars == <<envelope_xdr, network_passphrase, invocation, hashes>>
cli_vars == <<invoke>>

vars == <<ledger_file, server_vars, codec_vars, cli_vars>>


\* The state of a task: the request it handles, where it stands, and the
\* handler's locals: m, the mutex guard (held or not); ledger_entries,
\* execute_transaction's snapshot read; execution, the result of
\* sendTransaction's execute_transaction; result, the handler's result; and
\* committed, whether its execute_transaction has committed.
Task(req, at, res) ==
  [request |-> req, pc |-> at, m |-> FALSE, ledger_entries |-> EmptySnapshot,
   execution |-> NoResult, result |-> res, committed |-> FALSE]

Tasks == BagToSet(tasks)

\* No codec call under way; no invoke command running.
CodecIdle ==
  /\ envelope_xdr = EnvelopeXdr(Undecodable)
  /\ network_passphrase = SANDBOX_NETWORK_PASSPHRASE
  /\ invocation = NoResult
  /\ hashes = <<>>
CliIdle == invoke = [pc |-> "idle"]

\* The server as Cmd::run starts it, no request received.
ServerInit ==
  /\ transaction_status_map = <<>>
  /\ locked = FALSE
  /\ tasks = EmptyBag
  /\ returned = {}
  /\ received = 0

Init ==
  /\ ledger_file \in {EmptySnapshot, DeployedSnapshot}
  /\ ServerInit
  /\ CodecIdle
  /\ CliIdle

\* The first string of a StringArg request, and what it parses to.
FirstArg(t) == t.request.params.items[1]
Parsed(t) == parse_transaction(FirstArg(t), SANDBOX_NETWORK_PASSPHRASE)
IdOf(t) == HexEncode(Parsed(t).val.hash)

\* Task t takes a step to state u.
Step(t, u) == tasks' = (tasks (-) SetToBag({t})) (+) SetToBag({u})

\* Variant: a lock that does not wait.
MutexLockNoWait == locked' = TRUE

\* tokio's Mutex::lock().await: waits until the mutex is free.
MutexLock == locked = FALSE /\ locked' = TRUE
\* The guard going out of scope.
MutexUnlock == locked' = FALSE

\* ----------------------------------------------------------------- handler

\* get_contract_data: the stored value of a contract-data key.  The model's
\* entries carry no last-modified sequence number.
get_contract_data(contract_id_hex, key_xdr, read) ==
  IF ~read.ok THEN Err("Snapshot")
  ELSE IF contract_id_hex.contract_hex # ContractId.str THEN Err("FromHex")
  ELSE IF key_xdr.key_xdr \notin DataKeys THEN Err("Xdr")
  ELSE IF read.val[key_xdr.key_xdr] = NoEntry THEN Err("Host")
  ELSE Ok([xdr |-> ToXdrBase64(read.val[key_xdr.key_xdr]), latestLedger |-> 1])

\* A request arrives and a task starts handling it; the handler runs up to
\* its first access to shared state, where the task stands at `at`.
Receive(req, at, res) ==
  /\ BagCardinality(tasks) < MaxInFlight
  /\ received < MaxRequests
  /\ received' = received + 1
  /\ tasks' = tasks (+) SetToBag({Task(req, at, res)})
  /\ UNCHANGED <<ledger_file, transaction_status_map, locked, returned,
                 codec_vars, cli_vars>>

\* Variant: the jsonrpc value is not looked at.
DispatchedAnyVersion(req, method, shape) ==
  /\ req.method = method
  /\ req.params.shape = shape

\* The request is dispatched to the arm of this method and params shape.
Dispatched(req, method, shape) ==
  /\ req.jsonrpc = "2.0"
  /\ req.method = method
  /\ req.params.shape = shape

\* request.jsonrpc != "2.0": answered at once, nothing dispatched.
RejectJsonRpc(req) ==
  /\ req.jsonrpc # "2.0"
  /\ Receive(req, "rejected", NoResult)

\* ("getContractData", Some(Requests::GetContractData(..))): goes on to read
\* the ledger file.
DispatchGetContractData(req) ==
  /\ Dispatched(req, "getContractData", "GetContractData")
  /\ Receive(req, "contract_data", NoResult)

GetContractData ==
  \E t \in Tasks :
    /\ t.pc = "contract_data"
    /\ \E read_ok \in BOOLEAN :
         Step(t, [t EXCEPT !.pc = "reply",
                           !.result = get_contract_data(
                              t.request.params.items[1], t.request.params.items[2],
                              IF read_ok THEN SnapshotRead(ledger_file)
                              ELSE Err("Snapshot"))])
    /\ UNCHANGED <<ledger_file, transaction_status_map, locked, returned, received,
                 codec_vars, cli_vars>>

\* A StringArg with no first string.
DispatchNoArg(req) ==
  /\ \E m \in {"getTransactionStatus", "simulateTransaction", "sendTransaction"} :
       Dispatched(req, m, "StringArg")
  /\ Len(req.params.items) = 0
  /\ Receive(req, "reply", Err("Xdr"))

\* The match's last arm: any other method or shape of params.
DispatchUnknown(req) ==
  /\ req.jsonrpc = "2.0"
  /\ ~Dispatched(req, "getContractData", "GetContractData")
  /\ \A m \in {"getTransactionStatus", "simulateTransaction", "sendTransaction"} :
       ~Dispatched(req, m, "StringArg")
  /\ Receive(req, "reply", Err("UnknownMethod"))

\* ("getTransactionStatus", ..): waits for the mutex.
DispatchGetTransactionStatus(req) ==
  /\ Dispatched(req, "getTransactionStatus", "StringArg")
  /\ Len(req.params.items) > 0
  /\ Receive(req, "status_lock", NoResult)

\* Variant: the status is read without waiting for the mutex.
StatusLockNoWait ==
  \E t \in Tasks :
    /\ t.pc = "status_lock"
    /\ locked' = TRUE
    /\ Step(t, [t EXCEPT !.pc = "status_get", !.m = TRUE])
    /\ UNCHANGED <<ledger_file, transaction_status_map, returned, received,
                 codec_vars, cli_vars>>

\* transaction_status_map.lock().await of getTransactionStatus.
StatusLock ==
  \E t \in Tasks :
    /\ t.pc = "status_lock"
    /\ MutexLock
    /\ Step(t, [t EXCEPT !.pc = "status_get", !.m = TRUE])
    /\ UNCHANGED <<ledger_file, transaction_status_map, returned, received,
                 codec_vars, cli_vars>>

\* Variant: a hash the tracker does not hold fails the request.
StatusGetMissingAsError ==
  \E t \in Tasks :
    /\ t.pc = "status_get"
    /\ MutexUnlock
    /\ Step(t, [t EXCEPT !.pc = "reply", !.m = FALSE,
                         !.result = IF FirstArg(t) \in DOMAIN transaction_status_map
                                    THEN Ok(transaction_status_map[FirstArg(t)])
                                    ELSE Err("NotFound")])
    /\ UNCHANGED <<ledger_file, transaction_status_map, returned, received,
                 codec_vars, cli_vars>>

\* m.get(hash), the answer, and the guard dropped at the end of the block.
StatusGet ==
  \E t \in Tasks :
    /\ t.pc = "status_get"
    /\ MutexUnlock
    /\ Step(t, [t EXCEPT !.pc = "reply", !.m = FALSE,
                         !.result = Ok(IF FirstArg(t) \in DOMAIN transaction_status_map
                                       THEN transaction_status_map[FirstArg(t)]
                                       ELSE TransactionNotFound)])
    /\ UNCHANGED <<ledger_file, transaction_status_map, returned, received,
                 codec_vars, cli_vars>>

\* Variant: simulateTransaction taking sendTransaction's arm.
DispatchSimulateLocking(req) ==
  /\ Dispatched(req, "simulateTransaction", "StringArg")
  /\ Len(req.params.items) > 0
  /\ Receive(req, "send_lock", NoResult)

\* ("simulateTransaction", ..): parse, then execute without commit.
DispatchSimulate(req) ==
  /\ Dispatched(req, "simulateTransaction", "StringArg")
  /\ Len(req.params.items) > 0
  /\ LET parsed == parse_transaction(req.params.items[1], SANDBOX_NETWORK_PASSPHRASE)
     IN IF parsed.ok
        THEN Receive(req, "execute", NoResult)
        ELSE Receive(req, "reply", Err(parsed.err))

\* ("sendTransaction", ..): waits for the mutex.
DispatchSend(req) ==
  /\ Dispatched(req, "sendTransaction", "StringArg")
  /\ Len(req.params.items) > 0
  /\ Receive(req, "send_lock", NoResult)

\* Variant: Pending is recorded for the hash before the execution.
SendLockWritingPending ==
  \E t \in Tasks :
    /\ t.pc = "send_lock"
    /\ MutexLock
    /\ Step(t, IF Parsed(t).ok
               THEN [t EXCEPT !.pc = "execute", !.m = TRUE]
               ELSE [t EXCEPT !.pc = "unlock", !.m = TRUE,
                              !.result = Err(Parsed(t).err)])
    /\ transaction_status_map' =
         IF Parsed(t).ok
         THEN (IdOf(t) :> [id |-> IdOf(t), status |-> "pending"])
              @@ transaction_status_map
         ELSE transaction_status_map
    /\ UNCHANGED <<ledger_file, returned, received,
                 codec_vars, cli_vars>>

\* Variant: a parse error leaves the handler without dropping the guard.
SendLockKeepingGuard ==
  \E t \in Tasks :
    /\ t.pc = "send_lock"
    /\ MutexLock
    /\ Step(t, IF Parsed(t).ok
               THEN [t EXCEPT !.pc = "execute", !.m = TRUE]
               ELSE [t EXCEPT !.pc = "reply", !.m = TRUE,
                              !.result = Err(Parsed(t).err)])
    /\ UNCHANGED <<ledger_file, transaction_status_map, returned, received,
                 codec_vars, cli_vars>>

\* Variant: a rejected envelope that decodes is tracked as an error under
\* its hash.
SendLockTrackingRejected ==
  \E t \in Tasks :
    /\ t.pc = "send_lock"
    /\ MutexLock
    /\ Step(t, IF Parsed(t).ok
               THEN [t EXCEPT !.pc = "execute", !.m = TRUE]
               ELSE [t EXCEPT !.pc = "unlock", !.m = TRUE,
                              !.result = Err(Parsed(t).err)])
    /\ transaction_status_map' =
         IF ~Parsed(t).ok /\ FromXdrBase64(FirstArg(t)).ok
         THEN LET id == HexEncode(hash_transaction_in_envelope(
                                    FromXdrBase64(FirstArg(t)).val,
                                    SANDBOX_NETWORK_PASSPHRASE).val)
              IN  (id :> StatusEntry(id, Err(Parsed(t).err)))
                  @@ transaction_status_map
         ELSE transaction_status_map
    /\ UNCHANGED <<ledger_file, returned, received, codec_vars, cli_vars>>

\* The guard is taken, then the envelope parsed; a parse error leaves the
\* block with the guard still to drop.
SendLock ==
  \E t \in Tasks :
    /\ t.pc = "send_lock"
    /\ MutexLock
    /\ Step(t, IF Parsed(t).ok
               THEN [t EXCEPT !.pc = "execute", !.m = TRUE]
               ELSE [t EXCEPT !.pc = "unlock", !.m = TRUE,
                              !.result = Err(Parsed(t).err)])
    /\ UNCHANGED <<ledger_file, transaction_status_map, returned, received,
                 codec_vars, cli_vars>>

\* execute_transaction up to its commit: snapshot::read, invoke_function,
\* try_finish and the footprint.  Each of these may fail.  Without commit
\* (simulateTransaction) the receipt follows at once and the result is the
\* handler's.
Execute ==
  \E t \in Tasks :
    /\ t.pc = "execute"
    /\ LET invoked == InvokeFunction(Parsed(t).val.args, ledger_file)
           commit == CommitFlag(t.request.method)
           return(res) ==
             Step(t, IF commit THEN [t EXCEPT !.pc = "executed", !.execution = res]
                     ELSE [t EXCEPT !.pc = "reply", !.result = res])
       IN \E fault \in {"none", "read", "try_finish", "key_xdr", "res_xdr"} :
         IF fault = "read" THEN return(Err("Snapshot"))
         ELSE IF ~invoked.ok \/ fault = "try_finish" THEN return(Err("Host"))
         ELSE IF fault = "key_xdr" THEN return(Err("Xdr"))
         ELSE IF commit THEN
           /\ fault = "none"
           /\ Step(t, [t EXCEPT !.pc = "commit", !.ledger_entries = ledger_file])
         ELSE IF fault = "res_xdr" THEN return(Err("Xdr"))
         ELSE return(Ok(Receipt(invoked.val.res, invoked.val.storage)))
    /\ UNCHANGED <<ledger_file, transaction_status_map, locked, returned, received,
                 codec_vars, cli_vars>>

\* if commit { snapshot::commit(..)? } and then the receipt.
Commit ==
  \E t \in Tasks :
    /\ t.pc = "commit"
    /\ LET invoked == InvokeFunction(Parsed(t).val.args, t.ledger_entries) IN
       \E fault \in {"none", "commit", "res_xdr"} :
         IF fault = "commit" THEN
           /\ Step(t, [t EXCEPT !.pc = "executed", !.execution = Err("Snapshot")])
           /\ UNCHANGED ledger_file
         ELSE
           /\ ledger_file' = CommittedSnapshot(t.ledger_entries, invoked.val.storage)
           /\ Step(t, [t EXCEPT !.pc = "executed", !.committed = TRUE,
                                !.execution =
                                   IF fault = "res_xdr" THEN Err("Xdr")
                                   ELSE Ok(Receipt(invoked.val.res,
                                                   invoked.val.storage))])
    /\ UNCHANGED <<transaction_status_map, locked, returned, received,
                 codec_vars, cli_vars>>

\* Variant: only a successful execution is tracked.
SendInsertOnlySuccess ==
  \E t \in Tasks :
    /\ t.pc = "executed"
    /\ transaction_status_map' =
         IF t.execution.ok
         THEN (IdOf(t) :> StatusEntry(IdOf(t), t.execution)) @@ transaction_status_map
         ELSE transaction_status_map
    /\ Step(t, [t EXCEPT !.pc = "unlock", !.result = Ok(PendingResponse(IdOf(t)))])
    /\ UNCHANGED <<ledger_file, locked, returned, received,
                 codec_vars, cli_vars>>

\* Variant: a failed execution removes the transaction's entry.
SendInsertForgetOnError ==
  \E t \in Tasks :
    /\ t.pc = "executed"
    /\ transaction_status_map' =
         IF t.execution.ok
         THEN (IdOf(t) :> StatusEntry(IdOf(t), t.execution)) @@ transaction_status_map
         ELSE [id \in DOMAIN transaction_status_map \ {IdOf(t)} |->
                 transaction_status_map[id]]
    /\ Step(t, [t EXCEPT !.pc = "unlock", !.result = Ok(PendingResponse(IdOf(t)))])
    /\ UNCHANGED <<ledger_file, locked, returned, received,
                 codec_vars, cli_vars>>

\* sendTransaction: m.insert(id, <terminal entry>) and the answer.
SendInsert ==
  \E t \in Tasks :
    /\ t.pc = "executed"
    /\ transaction_status_map' =
         (IdOf(t) :> StatusEntry(IdOf(t), t.execution)) @@ transaction_status_map
    /\ Step(t, [t EXCEPT !.pc = "unlock", !.result = Ok(PendingResponse(IdOf(t)))])
    /\ UNCHANGED <<ledger_file, locked, returned, received,
                 codec_vars, cli_vars>>

\* The end of sendTransaction's block: the guard is dropped.
Unlock ==
  \E t \in Tasks :
    /\ t.pc = "unlock"
    /\ MutexUnlock
    /\ Step(t, [t EXCEPT !.pc = "reply", !.m = FALSE])
    /\ UNCHANGED <<ledger_file, transaction_status_map, returned, received,
                 codec_vars, cli_vars>>

\* The response body of a task about to answer.
Response(t) ==
  IF t.pc = "rejected"
  THEN InvalidJsonRpcResponse(t.request.id)
  ELSE reply(t.request.id, t.result)

\* The response is sent and the task ends.
Respond ==
  \E t \in Tasks :
    /\ t.pc \in {"reply", "rejected"}
    /\ returned' = IF /\ t.pc = "reply"
                      /\ t.request.method = "sendTransaction"
                      /\ t.result.ok
                   THEN returned \cup {t.result.val.id} ELSE returned
    /\ tasks' = tasks (-) SetToBag({t})
    /\ UNCHANGED <<ledger_file, transaction_status_map, locked, received,
                 codec_vars, cli_vars>>

Next ==
  \/ \E req \in SampleRequests :
       \/ RejectJsonRpc(req)
       \/ DispatchGetContractData(req)
       \/ DispatchNoArg(req)
       \/ DispatchUnknown(req)
       \/ DispatchGetTransactionStatus(req)
       \/ DispatchSimulate(req)
       \/ DispatchSend(req)
  \/ GetContractData
  \/ StatusLock
  \/ StatusGet
  \/ SendLock
  \/ Execute
  \/ Commit
  \/ SendInsert
  \/ Unlock
  \/ Respond

Spec == Init /\ [][Next]_vars

\* ------------------------------------------------- the transaction codec

\* The codec called on its own: parse_transaction and
\* hash_transaction_in_envelope applied to envelopes of every shape the
\* parser tells apart.

\* How many parameters follow the method name.
MaxArgs == 2

U32(s) == [type |-> "U32", len |-> 4, str |-> s]
\* Sequences over S of length at most n.
SeqsUpTo(S, n) == UNION {[1..k -> S] : k \in 0..n}

\* Parameter 0: 32, 31 and 33 bytes, and a value that is no bytes object.
IdParams == {ContractId, Bytes(31, "c0"), Bytes(33, "c0"), Symbol(2, "c0")}
\* Parameter 1: the method name as bytes and as a symbol, too long for a
\* symbol, not UTF-8, and a value that is neither.
MethodParams ==
  {Bytes(3, "put"), Symbol(3, "put"), Bytes(11, "put_if_none"),
   Bytes(3, NotUtf8), Symbol(3, NotUtf8), U32("1")}
ArgParams == {Symbol(2, "k1"), Symbol(2, "v1"), U32("7")}

ParameterLists ==
  {<<>>} \cup {<<c>> : c \in IdParams}
  \cup {<<c, m>> \o a : c \in IdParams, m \in MethodParams,
                        a \in SeqsUpTo(ArgParams, MaxArgs)}

\* An operation that is no host function invocation, and an invocation of
\* another host function than Call.
PaymentOp == [body |-> "Payment", function |-> "None", parameters |-> <<>>]
CreateContractOp ==
  [body |-> "InvokeHostFunction", function |-> "CreateContract",
   parameters |-> <<ContractId, Symbol(3, "put")>>]

CodecOperations ==
  {InvokeOp(p) : p \in ParameterLists} \cup {PaymentOp, CreateContractOp}
OperationLists ==
  {<<>>} \cup {<<op>> : op \in CodecOperations}
  \cup {<<InvokeOp(<<ContractId, Symbol(3, "put")>>), op>> :
          op \in {PaymentOp, InvokeOp(<<ContractId, Symbol(3, "put")>>)}}

CodecEnvelopes ==
  {Undecodable} \cup {Tx(ops) : ops \in OperationLists}
  \cup {TxV0(ops) : ops \in OperationLists}
  \cup {TxFeeBump(ops) : ops \in OperationLists}

\* The sandbox passphrase with its last byte changed.
OneByteOffPassphrase == "Local Sandbox Stellar Network ; September 2023"
Passphrases ==
  {SANDBOX_NETWORK_PASSPHRASE, OneByteOffPassphrase, OtherPassphrase}

CodecInit ==
  /\ envelope_xdr \in {EnvelopeXdr(e) : e \in CodecEnvelopes}
  /\ network_passphrase \in Passphrases
  /\ invocation = NoResult
  /\ hashes = <<>>
  /\ ledger_file = EmptySnapshot
  /\ ServerInit
  /\ CliIdle

\* parse_transaction(txn_xdr, passphrase) is called.
ParseTransaction ==
  /\ invocation = NoResult
  /\ invocation' = parse_transaction(envelope_xdr, network_passphrase)
  /\ UNCHANGED <<envelope_xdr, network_passphrase, hashes,
                 ledger_file, server_vars, cli_vars>>

\* hash_transaction_in_envelope(envelope, passphrase) is called on the
\* decoded envelope, under any passphrase, any number of times.
HashTransaction ==
  /\ FromXdrBase64(envelope_xdr).ok
  /\ \E p \in Passphrases :
       hashes' =
         (p :> hash_transaction_in_envelope(FromXdrBase64(envelope_xdr).val, p))
         @@ hashes
  /\ UNCHANGED <<envelope_xdr, network_passphrase, invocation,
                 ledger_file, server_vars, cli_vars>>

CodecNext == ParseTransaction \/ HashTransaction

CodecSpec == CodecInit /\ [][CodecNext]_vars

\* ------------------------------------------------------ the invoke command

\* One run of the invoke command (invoke.rs, Cmd::run) on the ledger file.

\* The command line: --id, --wasm (or none), --fn and the arguments in the
\* order given.
Cmd(contract_id, wasm, function, args) ==
  [contract_id |-> contract_id, wasm |-> wasm, function |-> function, args |-> args]
NoWasm == "none"
\* An --id that is no hex contract id, and an argument that does not parse.
BadHex == "zz"
BadArg == "?"

CliArgs == DataKeys \cup {"v1", BadArg}
Cmds ==
  {Cmd(id, wasm, fn, args) :
     id \in {ContractId.str, BadHex}, wasm \in {NoWasm, Wasm},
     fn \in {"put", "del", "get", "copy", "burn"},
     args \in SeqsUpTo(CliArgs, MaxArgs)}

\* contractspec::function_spec: the number of inputs of a function of the
\* contract, or that the contract has no such function.
FunctionSpec(function) ==
  CASE function \in {"put", "copy"} -> Ok(2)
    [] function \in {"del", "get"} -> Ok(1)
    [] OTHER -> Err("FunctionNotFoundInContractSpec")

\* parse_args: the arguments must be as many as the function's inputs, and
\* each must parse to a value.
ParseArgs(args, inputs) ==
  IF Len(args) # inputs THEN Err("UnexpectedArgumentCount")
  ELSE IF \E i \in 1..Len(args) : args[i] = BadArg THEN Err("CannotParseArg")
  ELSE Ok([i \in 1..Len(args) |-> Symbol(2, args[i])])

\* The length in bytes of a function name.
NameLen(function) == IF function \in {"copy", "burn"} THEN 4 ELSE 3

\* utils::add_contract_to_ledger_entries
AddContract(entries, contract) == [entries EXCEPT ![CodeKey] = contract]

\* The locals of Cmd::run.
CliStart(cmd) ==
  [pc |-> "start", cmd |-> cmd, ledger_entries |-> EmptySnapshot,
   storage |-> EmptyStorage, res |-> "", stdout |-> <<>>, error |-> ""]

CliInit ==
  /\ ledger_file \in {EmptySnapshot, DeployedSnapshot}
  /\ invoke \in {CliStart(cmd) : cmd \in Cmds}
  /\ ServerInit
  /\ CodecIdle

\* The command ends with an error.
CliFail(error) == invoke' = [invoke EXCEPT !.pc = "failed", !.error = error]

\* Cmd::run up to the invocation: the ledger file is read, the contract
\* added to the entries read if --wasm is given, and the function invoked on
\* a recording storage over them.
CliInvoke ==
  /\ invoke.pc = "start"
  /\ \E fault \in {"none", "read", "contract_file"} :
       LET cmd == invoke.cmd
           entries == IF cmd.wasm = NoWasm THEN ledger_file
                      ELSE AddContract(ledger_file, cmd.wasm)
           inputs == FunctionSpec(cmd.function)
           parsed_args == ParseArgs(cmd.args, inputs.val)
           complete_args ==
             <<Bytes(ContractIdLen, cmd.contract_id),
               Symbol(NameLen(cmd.function), cmd.function)>>
             \o parsed_args.val
           invoked == InvokeFunction(complete_args, entries)
       IN
       IF cmd.contract_id = BadHex THEN CliFail("CannotParseContractID")
       ELSE IF fault = "read" THEN CliFail("CannotReadLedgerFile")
       ELSE IF cmd.wasm # NoWasm /\ fault = "contract_file"
         THEN CliFail("CannotReadContractFile")
       ELSE IF entries[CodeKey] = NoEntry THEN CliFail("Host")
       ELSE IF ~inputs.ok THEN CliFail(inputs.err)
       ELSE IF ~parsed_args.ok THEN CliFail(parsed_args.err)
       ELSE IF NameLen(cmd.function) > SymbolMaxLen THEN CliFail("FunctionNameTooLong")
       ELSE IF ~invoked.ok THEN CliFail("Host")
       ELSE invoke' = [invoke EXCEPT !.pc = "print", !.ledger_entries = entries,
                                     !.storage = invoked.val.storage,
                                     !.res = invoked.val.res]
  /\ UNCHANGED <<ledger_file, server_vars, codec_vars>>

\* Variant: the ledger file is written before the host is finished.
CliPrintCommitting ==
  /\ invoke.pc = "print"
  /\ \E fault \in {"none", "to_string", "try_finish"} :
       IF fault = "to_string"
       THEN CliFail("CannotPrintResult") /\ UNCHANGED ledger_file
       ELSE /\ invoke' = [invoke EXCEPT
                            !.stdout = <<invoke.res>>,
                            !.pc = IF fault = "try_finish" THEN "failed" ELSE "commit",
                            !.error = IF fault = "try_finish" THEN "Host" ELSE ""]
            /\ ledger_file' =
                 SnapshotCommit(invoke.ledger_entries, DeltaMap(invoke.storage))
  /\ UNCHANGED <<server_vars, codec_vars>>

\* The result is printed, and the host finished.
CliPrint ==
  /\ invoke.pc = "print"
  /\ \E fault \in {"none", "to_string", "try_finish"} :
       IF fault = "to_string" THEN CliFail("CannotPrintResult")
       ELSE invoke' = [invoke EXCEPT
                         !.stdout = <<invoke.res>>,
                         !.pc = IF fault = "try_finish" THEN "failed" ELSE "commit",
                         !.error = IF fault = "try_finish" THEN "Host" ELSE ""]
  /\ UNCHANGED <<ledger_file, server_vars, codec_vars>>

\* snapshot::commit(ledger_entries, &storage.map, &self.ledger_file)
CliCommit ==
  /\ invoke.pc = "commit"
  /\ \E fault \in {"none", "commit"} :
       IF fault = "commit"
       THEN CliFail("CannotCommitLedgerFile") /\ UNCHANGED ledger_file
       ELSE /\ ledger_file' =
                 SnapshotCommit(invoke.ledger_entries, DeltaMap(invoke.storage))
            /\ invoke' = [invoke EXCEPT !.pc = "done"]
  /\ UNCHANGED <<server_vars, codec_vars>>

CliNext == CliInvoke \/ CliPrint \/ CliCommit

CliSpec == CliInit /\ [][CliNext]_vars

\* ------------------------------------------------------------ properties

\* Task state t is left by the step: the task in state t moved on.
Stepped(t) == CopiesIn(t, tasks') < CopiesIn(t, tasks)
\* Task state u is entered by the step.
Entered(u) == CopiesIn(u, tasks') > CopiesIn(u, tasks)
\* The step belongs to a request of the method: its task starts, moves or ends.
StepOf(method) ==
  \E t \in Tasks \cup BagToSet(tasks') :
    t.request.method = method /\ CopiesIn(t, tasks') # CopiesIn(t, tasks)

\* A sendTransaction task whose envelope decodes.
Accepted(t) ==
  /\ t.request.method = "sendTransaction"
  /\ t.request.jsonrpc = "2.0"
  /\ t.request.params.shape = "StringArg"
  /\ Len(t.request.params.items) > 0
  /\ Parsed(t).ok

Terminal == {"success", "error"}
\* The task is inside execute_transaction or has just left it.
Executing(t) == t.pc \in {"execute", "commit", "executed"}

\* C1 as stated: while a sendTransaction whose envelope decodes is executing,
\* the status tracker holds Pending for its hash.
C1_PendingBeforeExecution ==
  \A t \in Tasks :
    Accepted(t) /\ Executing(t) =>
      /\ IdOf(t) \in DOMAIN transaction_status_map
      /\ transaction_status_map[IdOf(t)].status = "pending"

\* C1 as amended: the status tracker is written only by a sendTransaction
\* whose execute_transaction has returned, holding the guard, and what is
\* written is the terminal Success or Error entry of that execution under the
\* transaction's hash; nothing (no Pending either) is written before or
\* during the execution.
C1_TerminalOnlyAfterExecution ==
  [][transaction_status_map' # transaction_status_map =>
       \E t \in Tasks :
         /\ Stepped(t) /\ Accepted(t) /\ t.pc = "executed" /\ t.m
         /\ StatusEntry(IdOf(t), t.execution).status \in Terminal
         /\ transaction_status_map' =
              (IdOf(t) :> StatusEntry(IdOf(t), t.execution)) @@ transaction_status_map]_vars

\* A sendTransaction has executed and written its terminal entry.
C1_Witness ==
  \E t \in Tasks :
    /\ Accepted(t) /\ t.pc = "unlock"
    /\ transaction_status_map[IdOf(t)].status \in Terminal

\* C2: when execute_transaction has returned an error, the ledger file is as
\* the call read it: no commit has occurred.
C2_NoCommitOnError ==
  \A t \in Tasks :
    t.pc = "executed" /\ ~t.execution.ok =>
      ~t.committed \/ ledger_file = t.ledger_entries

\* C3: no step of a simulateTransaction request changes the ledger file.
C3_SimulateLeavesSnapshot ==
  [][StepOf("simulateTransaction") => ledger_file' = ledger_file]_vars

\* A simulateTransaction has answered with a footprint that writes k1, and
\* the ledger file holds no k1.
C3_Witness ==
  \E t \in Tasks :
    /\ t.request.method = "simulateTransaction" /\ t.pc = "reply" /\ t.result.ok
    /\ Len(t.result.val.footprint.readWrite) > 0
    /\ ledger_file["k1"] = NoEntry

\* The delta map of the execution a sendTransaction task committed.
DeltaOf(t) ==
  DeltaMap(InvokeFunction(Parsed(t).val.args, t.ledger_entries).val.storage)

\* C4: after a sendTransaction whose execution succeeded has committed, the
\* ledger file holds, under every key of the delta, the delta's value, and
\* under every other key what the snapshot read held.
C4_CommitMerges ==
  \A t \in Tasks :
    t.pc = "executed" /\ t.committed /\ t.execution.ok =>
      \A k \in Keys :
        ledger_file[k] = IF k \in DOMAIN DeltaOf(t) THEN DeltaOf(t)[k]
                         ELSE t.ledger_entries[k]

\* A commit that overrode one key and kept an entry under a key outside the
\* delta.
C4_Witness ==
  \E t \in Tasks :
    /\ t.pc = "executed" /\ t.committed /\ t.execution.ok
    /\ \E k \in DOMAIN DeltaOf(t) : DeltaOf(t)[k] # t.ledger_entries[k]
    /\ \E k \in Keys \ DOMAIN DeltaOf(t) :
         t.ledger_entries[k] # NoEntry /\ ledger_file[k] = t.ledger_entries[k]

\* C5: a getTransactionStatus that looks up an id sendTransaction has already
\* answered with gets the entry of that id, Pending or terminal, never the
\* not-found answer.
C5_NeverNotFoundAfterSend ==
  [][\A t \in Tasks :
       Stepped(t) /\ t.pc = "status_get" /\ FirstArg(t) \in returned =>
         \A u \in BagToSet(tasks') :
           Entered(u) =>
             /\ u.result.ok
             /\ u.result.val # TransactionNotFound
             /\ u.result.val.id = FirstArg(t)
             /\ u.result.val.status \in Terminal \cup {"pending"}]_vars

\* A getTransactionStatus has found the entry of an answered sendTransaction
\* whose execution failed.
C5_Witness ==
  \E t \in Tasks :
    /\ t.request.method = "getTransactionStatus" /\ t.pc = "reply"
    /\ t.result.ok /\ t.result.val # TransactionNotFound
    /\ FirstArg(t) \in returned
    /\ t.result.val.status = "error"

\* C6 as stated: once an entry holds a terminal value no step changes it.
C6_TerminalWrittenOnce ==
  [][\A id \in DOMAIN transaction_status_map :
       transaction_status_map[id].status \in Terminal =>
         /\ id \in DOMAIN transaction_status_map'
         /\ transaction_status_map'[id] = transaction_status_map[id]]_vars

\* C6 as amended: an entry is never deleted and always holds a terminal
\* value, and it changes only when a sendTransaction of the same hash, its
\* envelope resubmitted, has executed again and overwrites it.
C6_TerminalKeptOrOverwritten ==
  [][\A id \in DOMAIN transaction_status_map :
       /\ id \in DOMAIN transaction_status_map'
       /\ transaction_status_map'[id].status \in Terminal
       /\ transaction_status_map'[id] # transaction_status_map[id] =>
            \E t \in Tasks :
              Stepped(t) /\ Accepted(t) /\ t.pc = "executed" /\ IdOf(t) = id]_vars

\* A resubmitted transaction has executed with an outcome other than the
\* one its entry holds.
C6_Witness ==
  \E t \in Tasks :
    /\ Accepted(t) /\ t.pc = "executed"
    /\ IdOf(t) \in DOMAIN transaction_status_map
    /\ transaction_status_map[IdOf(t)].status \in Terminal
    /\ StatusEntry(IdOf(t), t.execution).status # transaction_status_map[IdOf(t)].status

\* The tasks holding the mutex guard.
Holders == {t \in Tasks : t.m}

\* C7: at most one task holds the guard, and the mutex is locked exactly
\* then; a task reads or writes the status map only holding the guard, and a
\* task that has left its block, on the success and on the error path, holds
\* none.
C7_MutualExclusion ==
  /\ \A t \in Holders : Holders = {t} /\ CopiesIn(t, tasks) = 1
  /\ locked <=> Holders # {}
  /\ \A t \in Tasks :
       /\ t.pc \in {"status_get", "executed", "unlock"} => t.m
       /\ t.pc \in {"reply", "rejected", "status_lock", "send_lock", "contract_data"}
            => ~t.m

\* One task holds the guard on sendTransaction's error path while another
\* waits for the mutex.
C7_Witness ==
  \E t, u \in Tasks :
    /\ t.m /\ t.pc = "unlock" /\ ~t.result.ok
    /\ u.pc \in {"status_lock", "send_lock"}

\* C8 as stated: while one sendTransaction has read its snapshot and not yet
\* committed, another sendTransaction can go on to read the same snapshot.
C8_SendsRunIndependently ==
  ( /\ \E t \in Tasks : Accepted(t) /\ t.pc = "commit"
    /\ \E u \in Tasks : Accepted(u) /\ u.pc = "send_lock" )
  => ENABLED SendLock

\* C8 as amended: sendTransaction requests of one process are serialised by
\* the status tracker's mutex: a sendTransaction inside execute_transaction
\* holds the guard, no other sendTransaction is inside execute_transaction,
\* and when it comes to commit the ledger file still is the snapshot it read.
C8_SendsSerialised ==
  \A t \in Tasks :
    Accepted(t) /\ Executing(t) =>
      /\ t.m /\ CopiesIn(t, tasks) = 1
      /\ \A u \in Tasks : Accepted(u) /\ Executing(u) => u = t
      /\ t.pc = "commit" => ledger_file = t.ledger_entries

\* A sendTransaction is about to commit while another one waits.
C8_Witness ==
  /\ \E t \in Tasks : Accepted(t) /\ t.pc = "commit"
  /\ \E u \in Tasks : Accepted(u) /\ u.pc = "send_lock"

\* C9: the answer of a sendTransaction whose envelope decodes is
\* {id: hash, status: pending} whatever the execution gave, and where that
\* answer is constructed the status tracker holds the terminal entry of this
\* execution.
C9_PendingAnswerAfterTerminal ==
  \A t \in Tasks :
    Accepted(t) /\ t.pc \in {"unlock", "reply"} =>
      /\ t.result = Ok([id |-> IdOf(t), status |-> "pending"])
      /\ Response(t).result = [id |-> IdOf(t), status |-> "pending"]
      /\ t.pc = "unlock" =>
           /\ IdOf(t) \in DOMAIN transaction_status_map
           /\ transaction_status_map[IdOf(t)] = StatusEntry(IdOf(t), t.execution)
           /\ transaction_status_map[IdOf(t)].status \in Terminal

\* A sendTransaction whose execution failed is about to answer pending.
C9_Witness ==
  \E t \in Tasks :
    /\ Accepted(t) /\ t.pc = "reply" /\ ~t.execution.ok
    /\ transaction_status_map[IdOf(t)].status = "error"

\* C10: no step of a simulateTransaction request takes the mutex or changes
\* the status map.
C10_SimulateLeavesStatus ==
  [][StepOf("simulateTransaction") =>
       /\ transaction_status_map' = transaction_status_map
       /\ locked' = locked]_vars

\* A simulateTransaction has executed while another task holds the guard and
\* the status map holds an entry.
C10_Witness ==
  \E t \in Tasks :
    /\ t.request.method = "simulateTransaction" /\ t.pc = "reply" /\ t.result.ok
    /\ locked
    /\ DOMAIN transaction_status_map # {}

\* The task states of the state a step leads to.
TasksAfter == BagToSet(tasks')

\* The set of the elements of a sequence.
Range(s) == {s[i] : i \in DOMAIN s}

\* The receipt a task holds once execute_transaction has returned to it.
ExecutionOf(u) ==
  IF u.request.method = "simulateTransaction" THEN u.result ELSE u.execution

\* A sendTransaction task whose execute_transaction has committed, and the
\* storage of that execution.
Committed(t) == Accepted(t) /\ t.pc = "executed" /\ t.committed
StorageOf(t) == InvokeFunction(Parsed(t).val.args, t.ledger_entries).val.storage

WholeMap(delta, storage, entries) ==
  /\ DOMAIN delta = DOMAIN storage.footprint
  /\ \A k \in DOMAIN delta :
       storage.footprint[k] = "ReadOnly" => delta[k] = entries[k]

C15_FootprintPartition ==
  [][\A t \in Tasks :
       Stepped(t) /\ t.pc \in {"execute", "commit"} =>
         \A u \in TasksAfter :
           Entered(u) /\ u.pc \in {"reply", "executed"} /\ ExecutionOf(u).ok =>
             LET snap == IF t.pc = "execute" THEN ledger_file ELSE t.ledger_entries
                 touched == DOMAIN InvokeFunction(Parsed(t).val.args, snap)
                                     .val.storage.footprint
                 ro == ExecutionOf(u).val.footprint.readOnly
                 rw == ExecutionOf(u).val.footprint.readWrite
             IN /\ Range(ro) \cap Range(rw) = {}
                /\ Range(ro) \cup Range(rw) = {ToXdrBase64(k) : k \in touched}
                /\ Len(ro) + Len(rw) = Cardinality(touched)]_vars

\* A receipt lists a key that was read and a key that was written.
C15_Witness ==
  \E t \in Tasks :
    /\ t.request.method \in {"simulateTransaction", "sendTransaction"}
    /\ t.request.jsonrpc = "2.0" /\ t.request.params.shape = "StringArg"
    /\ Len(t.request.params.items) > 0
    /\ t.pc \in {"reply", "executed"} /\ Parsed(t).ok /\ ExecutionOf(t).ok
    /\ Len(ExecutionOf(t).val.footprint.readOnly) > 0
    /\ Len(ExecutionOf(t).val.footprint.readWrite) > 0

\* C16: a request whose jsonrpc is not "2.0" is answered with code -32600
\* and never dispatched: its task only waits to answer, and no step of it
\* changes the status map, the mutex or the ledger file.
C16_InvalidJsonRpcRejected ==
  [][\A t \in Tasks \cup TasksAfter :
       t.request.jsonrpc # "2.0" =>
         /\ t.pc = "rejected"
         /\ Response(t).error.code = -32600
         /\ "result" \notin DOMAIN Response(t)
         /\ CopiesIn(t, tasks') # CopiesIn(t, tasks) =>
              /\ transaction_status_map' = transaction_status_map
              /\ locked' = locked
              /\ ledger_file' = ledger_file]_vars

\* A sendTransaction whose jsonrpc is "1.0" is about to be answered while the
\* ledger file holds nothing.
C16_Witness ==
  \E t \in Tasks :
    /\ t.request.jsonrpc = "1.0" /\ t.request.method = "sendTransaction"
    /\ t.pc = "rejected"
    /\ ledger_file = EmptySnapshot

\* The request of the task has a method, with params of its shape, that the
\* handler has an arm for.
KnownMethod(t) ==
  \/ t.request.method = "getContractData" /\ t.request.params.shape = "GetContractData"
  \/ /\ t.request.method \in {"getTransactionStatus", "simulateTransaction",
                              "sendTransaction"}
     /\ t.request.params.shape = "StringArg"

\* The failure of the task is a serialization failure: its envelope decoded
\* and the execution was a simulation that reached the rendering of its keys
\* and result as base64 XDR, which failed.
SerializationFailure(t) ==
  /\ t.request.method = "simulateTransaction"
  /\ KnownMethod(t) /\ Len(t.request.params.items) > 0
  /\ Parsed(t).ok
  /\ t.result = Err("Xdr")

\* A task that answers a failed dispatch.
Failed(t) == t.pc = "reply" /\ ~t.result.ok

C18_NotFoundEmbedded ==
  [][/\ StepOf("getTransactionStatus") =>
          transaction_status_map' = transaction_status_map
     /\ \A t \in Tasks :
          /\ Stepped(t) /\ t.pc = "status_get"
          /\ FirstArg(t) \notin DOMAIN transaction_status_map
          => \A u \in TasksAfter :
               Entered(u) =>
                 /\ u.pc = "reply" /\ u.result.ok
                 /\ DOMAIN Response(u) = {"jsonrpc", "id", "result"}
                 /\ Response(u).result.error.code = 404]_vars

\* A getTransactionStatus has not found its hash while the status tracker
\* holds another.
C18_Witness ==
  \E t \in Tasks :
    /\ t.request.method = "getTransactionStatus" /\ t.pc = "reply"
    /\ t.result = Ok(TransactionNotFound)
    /\ DOMAIN transaction_status_map # {}

\* C20: every entry of the status map has status success or error, and so
\* has every entry a getTransactionStatus answers with: none is pending.
C20_NoPendingStored ==
  /\ \A id \in DOMAIN transaction_status_map :
       transaction_status_map[id].status \in {"success", "error"}
  /\ \A t \in Tasks :
       /\ t.request.method = "getTransactionStatus" /\ t.pc = "reply"
       /\ t.result.ok /\ t.result.val # TransactionNotFound
       => /\ t.result.val.status \in {"success", "error"}
          /\ Response(t).result.status # "pending"

\* A getTransactionStatus answers with the entry of a successful execution
\* while a sendTransaction is about to answer pending.
C20_Witness ==
  /\ \E t \in Tasks :
       /\ t.request.method = "getTransactionStatus" /\ t.pc = "reply"
       /\ t.result.ok /\ t.result.val # TransactionNotFound
       /\ t.result.val.status = "success"
  /\ \E u \in Tasks : Accepted(u) /\ u.pc = "reply"

\* A task of the method whose request reaches the method's arm with an
\* argument: the requests that go on to take the status tracker's lock are
\* those of sendTransaction and getTransactionStatus.
WithArg(t, method) ==
  /\ t.request.method = method
  /\ t.request.jsonrpc = "2.0"
  /\ t.request.params.shape = "StringArg"
  /\ Len(t.request.params.items) > 0

\* The positions of a sendTransaction between taking the guard and dropping it.
SendBlock == {"execute", "commit", "executed", "unlock"}

\* C21: a sendTransaction holds the guard of the status tracker from before
\* its envelope is decoded until its terminal status is inserted: in its
\* block it holds the locked mutex, on the path of a rejected envelope too;
\* when it is about to drop the guard after an execution the tracker holds a
\* terminal entry under its hash; and while it is executing no
\* getTransactionStatus and no other sendTransaction gets past its wait for
\* the lock or reads the tracker.
C21_LockHeldAcrossSend ==
  [][/\ \A t \in Tasks :
          WithArg(t, "sendTransaction") /\ t.pc \in SendBlock => t.m /\ locked
     /\ \A t \in Tasks :
          Accepted(t) /\ t.pc = "unlock" =>
            /\ IdOf(t) \in DOMAIN transaction_status_map
            /\ transaction_status_map[IdOf(t)].status \in Terminal
     /\ (\E t \in Tasks : Accepted(t) /\ Executing(t)) =>
          \A u \in Tasks :
            Stepped(u) => u.pc \notin {"status_lock", "send_lock", "status_get"}]_vars

\* A sendTransaction is between its execution and its commit while a
\* getTransactionStatus waits for the lock.
C21_Witness ==
  /\ \E t \in Tasks : Accepted(t) /\ t.pc = "commit" /\ t.m
  /\ \E u \in Tasks : WithArg(u, "getTransactionStatus") /\ u.pc = "status_lock"

\* A sendTransaction task whose envelope parse_transaction rejects.
Rejected(t) == WithArg(t, "sendTransaction") /\ ~Parsed(t).ok

\* The id the envelope of the task would be tracked under: the hex of the
\* hash parse_transaction computes right after decoding.
HashIdOf(t) ==
  HexEncode(hash_transaction_in_envelope(FromXdrBase64(FirstArg(t)).val,
                                         SANDBOX_NETWORK_PASSPHRASE).val)

\* C22: a sendTransaction whose envelope parse_transaction rejects changes
\* neither the status tracker nor the ledger file in any of its steps, is
\* never executed, is answered with an error member and no result, and the
\* tracker holds no entry under the hash of its envelope when the envelope
\* decodes.
C22_RejectedLeavesNoTrace ==
  [][\A t \in Tasks \cup TasksAfter :
       Rejected(t) =>
         /\ t.pc \in {"send_lock", "unlock", "reply"}
         /\ CopiesIn(t, tasks') # CopiesIn(t, tasks) =>
              /\ transaction_status_map' = transaction_status_map
              /\ ledger_file' = ledger_file
         /\ t.pc = "reply" =>
              /\ "error" \in DOMAIN Response(t)
              /\ "result" \notin DOMAIN Response(t)
              /\ Response(t).error.code = InternalError
         /\ FromXdrBase64(FirstArg(t)).ok =>
              /\ HashIdOf(t) \notin DOMAIN transaction_status_map
              /\ HashIdOf(t) \notin DOMAIN transaction_status_map']_vars

\* A sendTransaction whose envelope decodes and has two operations is about
\* to be answered while the tracker holds the entry of another transaction.
C22_Witness ==
  \E t \in Tasks :
    /\ Rejected(t) /\ t.pc = "reply"
    /\ FromXdrBase64(FirstArg(t)).ok
    /\ DOMAIN transaction_status_map # {}

\* The request names a method the handler has an arm for, with params the
\* arm does not take: none; a list of two strings for the methods that take
\* a list of strings; a list that is not of two strings for getContractData.
WrongShape(t) ==
  /\ t.request.jsonrpc = "2.0"
  /\ \/ /\ t.request.method \in {"getTransactionStatus", "simulateTransaction",
                                 "sendTransaction"}
        /\ t.request.params = NoParams \/ Len(t.request.params.items) = 2
     \/ /\ t.request.method = "getContractData"
        /\ t.request.params = NoParams \/ Len(t.request.params.items) # 2

\* C24: a request of a known method with params of the wrong shape goes to
\* the match's last arm: its task only waits to answer, the answer is the
\* error -32601 of an unknown method, and its steps change neither the status
\* tracker, nor its lock, nor the ledger file.
C24_WrongShapeIsUnknownMethod ==
  [][\A t \in Tasks \cup TasksAfter :
       WrongShape(t) =>
         /\ t.pc = "reply"
         /\ t.result = Err("UnknownMethod")
         /\ Response(t).error.code = -32601
         /\ "result" \notin DOMAIN Response(t)
         /\ CopiesIn(t, tasks') # CopiesIn(t, tasks) =>
              /\ transaction_status_map' = transaction_status_map
              /\ locked' = locked
              /\ ledger_file' = ledger_file]_vars

\* A sendTransaction with two envelopes, a getContractData with one string
\* and a getTransactionStatus with no params have each been received; one is
\* about to be answered while the ledger file holds a committed entry.
C24_Witness ==
  /\ \E t \in Tasks :
       /\ WrongShape(t) /\ t.request.method = "sendTransaction"
       /\ Len(t.request.params.items) = 2 /\ t.pc = "reply"
  /\ \E t \in Tasks :
       /\ WrongShape(t) /\ t.pc = "reply"
       /\ \/ t.request.method = "getContractData"
          \/ t.request.params = NoParams
  /\ ledger_file # EmptySnapshot

\* ---------------------------------------------- properties of the codec

\* The envelope the codec was called on, once decoded, and whether it decodes.
Decodes == FromXdrBase64(envelope_xdr).ok
Envelope == FromXdrBase64(envelope_xdr).val
\* parse_transaction has returned.
ParseReturned == invocation # NoResult

\* The envelope has exactly one operation, an invocation of Call.
SingleCall ==
  /\ Decodes
  /\ Len(Operations(Envelope)) = 1
  /\ Operations(Envelope)[1].body = "InvokeHostFunction"
  /\ Operations(Envelope)[1].function = "Call"
\* The parameters of that invocation.
Parameters == Operations(Envelope)[1].parameters

\* C11: parse_transaction returns an invocation only for an envelope with
\* exactly one operation, an invocation of Call with at least 2 parameters
\* whose parameter 0 is a bytes object of 32 bytes and whose parameter 1 is
\* a bytes object or a symbol; for every other envelope it returns an error,
\* which carries no invocation.
C11_ParseRejectsMalformed ==
  ParseReturned =>
    /\ invocation.ok =>
         /\ SingleCall
         /\ Len(Parameters) >= 2
         /\ Parameters[1].type = "Bytes" /\ Parameters[1].len = 32
         /\ Parameters[2].type \in {"Bytes", "Symbol"}
    /\ ~invocation.ok => DOMAIN invocation = {"ok", "err"}

\* An envelope that is well formed but for its 31-byte contract id has been
\* rejected.
C11_Witness ==
  /\ ParseReturned /\ ~invocation.ok
  /\ SingleCall /\ Len(Parameters) >= 2
  /\ Parameters[1].type = "Bytes" /\ Parameters[1].len = 31
  /\ Parameters[2] = Symbol(3, "put")

\* The other encoding of a method name.
Reencoded(method_xdr) ==
  IF method_xdr.type = "Bytes" THEN Symbol(method_xdr.len, method_xdr.str)
  ELSE Bytes(method_xdr.len, method_xdr.str)
\* The envelope has a method name that both encodings can hold.
HasTwin ==
  /\ SingleCall /\ Len(Parameters) >= 2
  /\ Parameters[2].type \in {"Bytes", "Symbol"}
  /\ Parameters[2].len <= SymbolMaxLen
\* The same envelope with the method name in the other encoding.
Twin ==
  LET op == [Operations(Envelope)[1] EXCEPT !.parameters[2] = Reencoded(@)] IN
  EnvelopeXdr(CASE Envelope.variant = "Tx" -> Tx(<<op>>)
                [] Envelope.variant = "TxV0" -> TxV0(<<op>>)
                [] Envelope.variant = "TxFeeBump" -> TxFeeBump(<<op>>))

\* C12: an envelope and the envelope that differs from it only in the
\* encoding of the method name, bytes or symbol, parse alike: both are
\* rejected or both give the same contract id, method and arguments.
C12_MethodEncodingsAgree ==
  ParseReturned /\ HasTwin =>
    LET other == parse_transaction(Twin, network_passphrase) IN
    /\ other.ok = invocation.ok
    /\ invocation.ok => other.val.args = invocation.val.args

\* An envelope with its method name in bytes and with arguments parsed.
C12_Witness ==
  /\ ParseReturned /\ invocation.ok /\ HasTwin
  /\ Parameters[2].type = "Bytes"
  /\ Len(invocation.val.args) > 2

C19_ArgsKeepOrder ==
  ParseReturned /\ invocation.ok =>
    LET args == invocation.val.args IN
    /\ Len(args) = Len(Parameters)
    /\ args[1] = Bytes(32, Parameters[1].str)
    /\ args[2] = Symbol(Parameters[2].len, Parameters[2].str)
    /\ \A i \in 3..Len(Parameters) : args[i] = Parameters[i]

\* An accepted envelope with two different parameters after the method.
C19_Witness ==
  /\ ParseReturned /\ invocation.ok
  /\ Len(Parameters) = 4
  /\ Parameters[3] # Parameters[4]
  /\ invocation.val.args[3] = Parameters[3]

\* ------------------------------------------ properties of the invoke command

\* C23: the invoke command writes the ledger file in one step only, its
\* last, taken after the invocation has succeeded and the result has been
\* printed; a step that ends the command with an error before the commit
\* leaves the ledger file as it was, whatever --wasm added to the entries in
\* memory.
C23_LedgerWrittenLast ==
  [][/\ ledger_file' # ledger_file =>
          /\ invoke.pc = "commit" /\ invoke'.pc = "done"
          /\ invoke.stdout = <<invoke.res>>
     /\ invoke'.pc = "failed" /\ invoke.pc \in {"start", "print"} =>
          ledger_file' = ledger_file
     /\ invoke.pc \in {"failed", "done"} => invoke' = invoke]_vars

\* The command has failed when the host was finished, after --wasm added the
\* contract code to the entries in memory; the ledger file holds no code.
C23_Witness ==
  /\ invoke.pc = "failed" /\ invoke.error = "Host"
  /\ invoke.stdout # <<>>
  /\ invoke.cmd.wasm = Wasm
  /\ invoke.ledger_entries[CodeKey] = Wasm
  /\ ledger_file[CodeKey] = NoEntry

====
